---- MODULE Spec2Model ----
(***************************************************************************)
(* The anchoring client of OpenDSU-core (anchoring/index.js): versions     *)
(* and addVersion fan one request out to every anchoring service that the  *)
(* BDNS returns for the domain of a keySSI, wait with Promise.allSettled   *)
(* and aggregate the settled promises into one call of the callback.       *)
(*                                                                         *)
(* Two clients each make one call against the same anchoring services.     *)
(* A service keeps, for the anchor identifier, the list of the versions it *)
(* accepted; it is up, or answers every request with an error page, or     *)
(* cannot be reached, or never answers.                                    *)
(***************************************************************************)
EXTENDS Integers, Sequences, FiniteSets, TLC

\* ---------------------------------------------------------------- bounds
\* Number of anchoring services the BDNS can return for the domain.
MaxEndpoints == 3

\* ------------------------------------------------------------- constants
Clients == {"c1", "c2"}
Endpoints == 1..MaxEndpoints
Pointers == {"h1", "h2"}
\* The content hash of the version each client has committed and anchors.
Committed == [c \in Clients |-> IF c = "c1" THEN "h1" ELSE "h2"]

\* undefined, where a string is expected (a message, a callback's result)
Undefined == "undefined"
\* anchoring/index.js:102, the status of a write whose 'last' is stale
CONFLICT == 428
OutOfSync == "Unable to add alias: versions out of sync"
NoService == "No anchoring service provided"
\* constants.DOMAINS.VAULT, the domain that can be served by the local cache
VAULT == "vault"
\* The domains of the resources: the vault domain and a network domain.
Domains == {VAULT, "default"}

\* Errors, as the callback and the promises see them: what kind of value it
\* is, its statusCode (0: it has none) and its message.
Error(name, statusCode, message) ==
    [name |-> name, statusCode |-> statusCode, message |-> message]
\* null or undefined in the place of an error
NoError == Error("null", 0, Undefined)
\* what `response.value` throws when responses.find returned undefined
TypeErr == Error("TypeError", 0, "Cannot read properties of undefined (reading 'value')")

\* ------------------------------------------------------------ hash links
\* A HashLinkSSI object and its serialised identifier.
HashLinks == {[type |-> "hl", hash |-> h] : h \in Pointers}
\* an argument that was not given
NoHashLink == [type |-> "undefined", hash |-> ""]
getIdentifier(ssi) == <<"ssi", ssi.type, ssi.hash>>
\* A parse that takes the segments of the identifier in the wrong order.
parse_swapped(id) == [type |-> id[3], hash |-> id[2]]
parse(id) == [type |-> id[2], hash |-> id[3]]
\* null in the place of an identifier
Null == <<>>

\* A seed key: the domain it carries ("" when it carries none) and the DSU it
\* names.
KeySSI(domain, dsu) == [domain |-> domain, dsu |-> dsu]
NoKey == KeySSI("", "none")
\* A DSU as the builder sees it: its key and whether a batch is in progress.
Archive(keySSI, batch, origin) == [keySSI |-> keySSI, batch |-> batch, origin |-> origin]
NoBar == Archive(NoKey, FALSE, "none")
\* The config of buildDossier: {seed, domain} and the skipFsWrite the
\* builder sets on it; or the destination DSU in its place.
Config(domain, skipFsWrite) ==
    [constructor |-> "Object", domain |-> domain, skipFsWrite |-> skipFsWrite]
ArchiveConfig == [constructor |-> "Archive", domain |-> "", skipFsWrite |-> FALSE]
\* The seed file: missing, empty, not a key, or the key stored in it.
SeedFile(kind, keySSI) == [kind |-> kind, keySSI |-> keySSI]

VARIABLES
    anchors,                 \* service -> the version records it accepted, oldest first
    health,                  \* service -> how it answers requests
    bdnsServices,            \* the services the BDNS holds for the domain
    pc,                      \* client -> where its current call stands
    op,                      \* client -> "versions" | "addVersion" | "none"
    lastHashLinkSSI,         \* client -> argument of addVersion
    newHashLinkSSI,          \* client -> argument of addVersion
    anchoringServicesArray,  \* client -> the list the BDNS returned
    body,                    \* client -> the body of the PUT requests
    queries,                 \* client -> the promises, one per service of the list
    firstSettled,            \* client -> index of the promise that fulfilled first (0: none yet)
    callbacks,               \* client -> the invocations of its callback so far
    dlDomain,                \* client -> keySSI.getDLDomain() of the resource it works on
    vaultType,               \* config.get(constants.CACHE.VAULT_TYPE), process-wide
    located,                 \* client -> the domains its call asked the BDNS for, in order
    requested,               \* client -> the services its call sent a request to, in order
    cached,                  \* client -> number of calls it made to cachedAnchoring
    dpc,                     \* DossierBuilder: where the current buildDossier stands
    sourceDSU,               \* DossierBuilder: whether a sourceDSU was given to the constructor
    configOrDSU,             \* buildDossier: the config object (or the Archive) it was given
    seedFile,                \* the file at configOrDSU.seed
    commands,                \* buildDossier: the commands still to run
    given,                   \* buildDossier: the commands it was given
    bar,                     \* the DSU the build works on
    trace,                   \* what the build called and was called back with, in order
    buildCallbacks,          \* the invocations of the callback of buildDossier
    builds                   \* number of buildDossier calls made

\* The state of the DossierBuilder.
dossierVars == <<dpc, sourceDSU, configOrDSU, seedFile, commands, given, bar, trace,
                 buildCallbacks, builds>>

\* The state of the anchoring calls.
anchoringVars == <<anchors, health, bdnsServices, pc, op, lastHashLinkSSI, newHashLinkSSI,
                   anchoringServicesArray, body, queries, firstSettled, callbacks,
                   dlDomain, vaultType, located, requested, cached>>

\* What the steps of a call on the network path leave alone.
pathVars == <<dlDomain, vaultType, located, cached, dossierVars>>

vars == <<anchors, health, bdnsServices, pc, op, lastHashLinkSSI, newHashLinkSSI,
          anchoringServicesArray, body, queries, firstSettled, callbacks,
          dlDomain, vaultType, located, requested, cached,
          dpc, sourceDSU, configOrDSU, seedFile, commands, given, bar, trace,
          buildCallbacks, builds>>

\* ------------------------------------------------------------- promises
Pending == [status |-> "pending"]
Fulfilled(v) == [status |-> "fulfilled", value |-> v]
Rejected(r) == [status |-> "rejected", reason |-> r]

\* A find that returns the last match.
find_last(responses, st) ==
    LET hits == {i \in 1..Len(responses) : responses[i].status = st}
    IN IF hits = {} THEN 0 ELSE CHOOSE i \in hits : \A j \in hits : j <= i

\* Array.prototype.find over the settled promises: the lowest index whose
\* status is st, 0 when there is none (find returns undefined).
find(responses, st) ==
    LET hits == {i \in 1..Len(responses) : responses[i].status = st}
    IN IF hits = {} THEN 0 ELSE CHOOSE i \in hits : \A j \in hits : i <= j

\* Promise.allSettled(queries) has settled: no promise is pending.
allSettled(qs) == \A i \in 1..Len(qs) : qs[i].status # "pending"

\* ------------------------------------------------- the anchoring service
\* The head of a service's chain: the pointer it accepted last, null when
\* it has accepted none.
ChainHead(e) == IF anchors[e] = <<>> THEN Null ELSE anchors[e][Len(anchors[e])].new

\* The chain a service serves on GET /anchor/versions/{anchorId}: the JSON
\* array of the identifiers it accepted, oldest first.
ServedChain(e) == [k \in 1..Len(anchors[e]) |-> anchors[e][k].new]

\* A service that accepts every write.
ServiceAccepts_any(e, b) == TRUE

\* The optimistic-concurrency check of a service on PUT /anchor/add/{anchorId}.
ServiceAccepts(e, b) == b.hash.last = ChainHead(e)

\* How a service answers: "up" serves the protocol; "faulty" answers every
\* request with status 500 and an error page; "unreachable" refuses the
\* connection; "silent" never answers.
Health == {"up", "faulty", "unreachable", "silent"}

\* The errors doPut reports: a conflict, a non-2xx status without a message,
\* and a connection that failed before any status (statusCode undefined).
ConflictError == [statusCode |-> CONFLICT, message |-> "Precondition Required"]
ServerError == [statusCode |-> 500, message |-> Undefined]
ConnectionError == [statusCode |-> 0, message |-> "ECONNREFUSED"]

\* ------------------------------------------------------------ addVersion
\* A body that leaves the new identifier out.
PutBody_noNew(last, new) ==
    [hash |-> [last |-> IF last # NoHashLink THEN getIdentifier(last) ELSE Null,
               new |-> Null]]

\* The body of the PUT request (the auxiliary fields are opaque, left out).
PutBody(last, new) ==
    [hash |-> [last |-> IF last # NoHashLink THEN getIdentifier(last) ELSE Null,
               new |-> getIdentifier(new)]]
\* versions sends no body
NoBody == [hash |-> [last |-> Null, new |-> Null]]

\* RejectReason without the translation of the conflict status.
RejectReason_untranslated(err) ==
    Error("Object", err.statusCode,
          IF err.message # Undefined THEN err.message ELSE "Error")

\* The reason a write promise is rejected with, from doPut's error.
RejectReason(err) ==
    Error("Object", err.statusCode,
          IF err.statusCode = CONFLICT THEN OutOfSync
          ELSE IF err.message # Undefined THEN err.message ELSE "Error")

\* -------------------------------------------------------------- versions
\* response.json() followed by hlStrings.map(keyssi.parse).
Decodable(resp) == resp.json
hashLinks(resp) == [k \in 1..Len(resp.body) |-> parse(resp.body[k])]

\* The lists the BDNS can hold: the first n services, n = 0..MaxEndpoints.
ServiceLists == {[i \in 1..n |-> i] : n \in 0..MaxEndpoints}

\* The services the BDNS returns for a domain: bdnsServices for the network
\* domain, the other services for the vault domain.
Registry(d) ==
    IF d = VAULT
    THEN [i \in 1..(MaxEndpoints - Len(bdnsServices)) |-> Len(bdnsServices) + i]
    ELSE bdnsServices

\* No buildDossier was called.
DossierIdle ==
    /\ dpc = "idle"
    /\ commands = <<>>
    /\ given = <<>>
    /\ bar = NoBar
    /\ trace = <<>>
    /\ buildCallbacks = <<>>
    /\ builds = 0

\* There is no DossierBuilder at work: no seed file, no config.
NoDossier ==
    /\ DossierIdle
    /\ sourceDSU = FALSE
    /\ configOrDSU = Config("default", FALSE)
    /\ seedFile = SeedFile("missing", NoKey)

\* No client has made its call.
Idle ==
    /\ pc = [c \in Clients |-> "idle"]
    /\ op = [c \in Clients |-> "none"]
    /\ lastHashLinkSSI = [c \in Clients |-> NoHashLink]
    /\ newHashLinkSSI = [c \in Clients |-> NoHashLink]
    /\ anchoringServicesArray = [c \in Clients |-> <<>>]
    /\ body = [c \in Clients |-> NoBody]
    /\ queries = [c \in Clients |-> <<>>]
    /\ firstSettled = [c \in Clients |-> 0]
    /\ callbacks = [c \in Clients |-> <<>>]
    /\ located = [c \in Clients |-> <<>>]
    /\ requested = [c \in Clients |-> <<>>]
    /\ cached = [c \in Clients |-> 0]

\* Both resources are in the network domain and no cache mode is configured.
Init ==
    /\ anchors = [e \in Endpoints |-> <<>>]
    /\ health \in [Endpoints -> Health]
    /\ bdnsServices \in ServiceLists
    /\ \A e \in Endpoints : e > Len(bdnsServices) => health[e] = "up"
    /\ dlDomain = [c \in Clients |-> "default"]
    /\ vaultType = Undefined
    /\ Idle
    /\ NoDossier

\* A path chosen on the domain alone.
Bypass_domainOnly(c) == dlDomain[c] = VAULT

\* The path a call takes: the local cache when the resource is in the vault
\* domain and a cache mode is configured, the network otherwise.
Bypass(c) == dlDomain[c] = VAULT /\ vaultType # Undefined

\* A call that asks the BDNS for the network domain, whatever its resource.
AskedDomain_default(c) == "default"

\* The domain a call asks the BDNS for.
AskedDomain(c) == dlDomain[c]

\* A client makes its call: the arguments are kept, and either the call is
\* handed to cachedAnchoring or the BDNS is asked for the services.
StartCall(c, name, last, new) ==
    /\ pc[c] = "idle"
    /\ op' = [op EXCEPT ![c] = name]
    /\ lastHashLinkSSI' = [lastHashLinkSSI EXCEPT ![c] = last]
    /\ newHashLinkSSI' = [newHashLinkSSI EXCEPT ![c] = new]
    /\ IF Bypass(c)
       THEN /\ cached' = [cached EXCEPT ![c] = @ + 1]
            /\ pc' = [pc EXCEPT ![c] = "cached"]
            /\ UNCHANGED located
       ELSE /\ located' = [located EXCEPT ![c] = Append(@, AskedDomain(c))]
            /\ pc' = [pc EXCEPT ![c] = "locating"]
            /\ UNCHANGED cached
    /\ UNCHANGED <<anchors, health, bdnsServices, anchoringServicesArray, body,
                   queries, firstSettled, callbacks, dlDomain, vaultType, requested>>
    /\ UNCHANGED dossierVars

\* versions(keySSI, callback).
versions(c) == StartCall(c, "versions", NoHashLink, NoHashLink)

\* addVersion(keySSI, newHashLinkSSI, lastHashLinkSSI, ..., callback).
addVersion(c) ==
    \E new \in {[type |-> "hl", hash |-> Committed[c]]} :
      \E last \in (HashLinks \ {new}) \cup {NoHashLink} :
        StartCall(c, "addVersion", last, new)

BdnsErrors == {Error("Error", 0, "bdns: domain not found")}

invoke(c, err, result) ==
    callbacks' = [callbacks EXCEPT ![c] = Append(@, [err |-> err, result |-> result])]

\* A BDNS that is never taken to have returned no service.
NoServiceProvided_never(list) == FALSE

\* !anchoringServicesArray.length: the BDNS returned no service.
NoServiceProvided(list) == Len(list) = 0

\* anchoringServicesArray.map(service => ...): the services a request is
\* sent to, one request for each element of the list, in list order.
Requests(list) == list

\* The callback of bdns.getAnchoringServices, of versions and of addVersion.
getAnchoringServicesCallback(c) ==
    /\ pc[c] = "locating"
    /\ \E err \in BdnsErrors \cup {NoError},
          list \in {Registry(located[c][Len(located[c])])} :
        IF err # NoError
        THEN /\ invoke(c, err, Undefined)
             /\ pc' = [pc EXCEPT ![c] = "done"]
             /\ UNCHANGED <<anchoringServicesArray, body, queries, requested>>
        ELSE IF NoServiceProvided(list)
        THEN /\ invoke(c, Error("String", 0, NoService), Undefined)
             /\ pc' = [pc EXCEPT ![c] = "done"]
             /\ UNCHANGED <<anchoringServicesArray, body, queries, requested>>
        ELSE /\ anchoringServicesArray' = [anchoringServicesArray EXCEPT ![c] = list]
             /\ requested' = [requested EXCEPT ![c] = @ \o Requests(list)]
             /\ body' = [body EXCEPT ![c] =
                    IF op[c] = "addVersion"
                    THEN PutBody(lastHashLinkSSI[c], newHashLinkSSI[c])
                    ELSE NoBody]
             /\ queries' = [queries EXCEPT ![c] = [i \in 1..Len(list) |-> Pending]]
             /\ pc' = [pc EXCEPT ![c] = "pending"]
             /\ UNCHANGED callbacks
    /\ UNCHANGED <<anchors, health, bdnsServices, op, lastHashLinkSSI, newHashLinkSSI,
                   firstSettled>>
    /\ UNCHANGED pathVars

\* What the promise of fetch(`${service}/anchor/versions/${anchorId}`) settles
\* with: fetch fulfils with the response whatever its status, and rejects
\* when there is no response.
fetch(e) ==
    CASE health[e] = "up" -> Fulfilled([json |-> TRUE, body |-> ServedChain(e)])
      [] health[e] = "faulty" -> Fulfilled([json |-> FALSE, body |-> <<>>])
      [] OTHER -> Rejected(Error("Error", 0, "fetch failed"))

\* One fetch of versions settles: the service of index i answers the GET.
fetchSettles(c, i) ==
    /\ pc[c] = "pending" /\ op[c] = "versions"
    /\ i \in 1..Len(queries[c])
    /\ queries[c][i].status = "pending"
    /\ health[anchoringServicesArray[c][i]] # "silent"
    /\ LET settled == fetch(anchoringServicesArray[c][i])
       IN /\ queries' = [queries EXCEPT ![c][i] = settled]
          /\ firstSettled' = [firstSettled EXCEPT ![c] =
                 IF @ = 0 /\ settled.status = "fulfilled" THEN i ELSE @]
    /\ UNCHANGED <<anchors, health, bdnsServices, pc, op, lastHashLinkSSI, newHashLinkSSI,
                   anchoringServicesArray, body, callbacks>>
    /\ UNCHANGED <<pathVars, requested>>

\* The confirmation a service answers an accepted write with.
Accepted(e, b) == [service |-> e, accepted |-> b.hash.new]

\* The reply of a service to PUT /anchor/add with body b: accepted (and then
\* it has appended the version), a conflict, or another failure.
PutReply(e, b) ==
    LET refused(err) ==
            [ok |-> FALSE, err |-> err, data |-> Accepted(e, b), stored |-> anchors[e]]
    IN CASE health[e] = "faulty" -> refused(ServerError)
         [] health[e] = "unreachable" -> refused(ConnectionError)
         [] OTHER ->
              IF ServiceAccepts(e, b)
              THEN [ok |-> TRUE, err |-> ConflictError, data |-> Accepted(e, b),
                    stored |-> Append(anchors[e], b.hash)]
              ELSE refused(ConflictError)

\* doPutCallback without the test of err: the promise is always resolved.
doPutCallback_noerr(c, i) ==
    /\ pc[c] = "pending" /\ op[c] = "addVersion"
    /\ i \in 1..Len(queries[c])
    /\ queries[c][i].status = "pending"
    /\ health[anchoringServicesArray[c][i]] # "silent"
    /\ LET reply == PutReply(anchoringServicesArray[c][i], body[c]) IN
         /\ anchors' = [anchors EXCEPT ![anchoringServicesArray[c][i]] = reply.stored]
         /\ queries' = [queries EXCEPT ![c][i] = Fulfilled(reply.data)]
         /\ firstSettled' = [firstSettled EXCEPT ![c] = IF @ = 0 THEN i ELSE @]
    /\ UNCHANGED <<health, bdnsServices, pc, op, lastHashLinkSSI, newHashLinkSSI,
                   anchoringServicesArray, body, callbacks>>
    /\ UNCHANGED <<pathVars, requested>>

\* doPutCallback that sends the request once more after a first conflict.
doPutCallback_retry(c, i) ==
    /\ pc[c] = "pending" /\ op[c] = "addVersion"
    /\ i \in 1..Len(queries[c])
    /\ queries[c][i].status = "pending"
    /\ health[anchoringServicesArray[c][i]] # "silent"
    /\ LET reply == PutReply(anchoringServicesArray[c][i], body[c])
           again == /\ ~reply.ok /\ reply.err.statusCode = CONFLICT
                    /\ Len(requested[c]) = Len(anchoringServicesArray[c])
       IN
         /\ anchors' = [anchors EXCEPT ![anchoringServicesArray[c][i]] = reply.stored]
         /\ requested' = [requested EXCEPT ![c] =
                IF again THEN Append(@, anchoringServicesArray[c][i]) ELSE @]
         /\ queries' = [queries EXCEPT ![c][i] =
                IF again THEN Pending
                ELSE IF ~reply.ok
                THEN Rejected(RejectReason(reply.err))
                ELSE Fulfilled(reply.data)]
         /\ firstSettled' = [firstSettled EXCEPT ![c] =
                IF @ = 0 /\ reply.ok THEN i ELSE @]
    /\ UNCHANGED <<health, bdnsServices, pc, op, lastHashLinkSSI, newHashLinkSSI,
                   anchoringServicesArray, body, callbacks>>
    /\ UNCHANGED pathVars

\* The callback of one doPut of addVersion: settles the promise of index i.
doPutCallback(c, i) ==
    /\ pc[c] = "pending" /\ op[c] = "addVersion"
    /\ i \in 1..Len(queries[c])
    /\ queries[c][i].status = "pending"
    /\ health[anchoringServicesArray[c][i]] # "silent"
    /\ LET reply == PutReply(anchoringServicesArray[c][i], body[c]) IN
         /\ anchors' = [anchors EXCEPT ![anchoringServicesArray[c][i]] = reply.stored]
         /\ queries' = [queries EXCEPT ![c][i] =
                IF ~reply.ok
                THEN Rejected(RejectReason(reply.err))
                ELSE Fulfilled(reply.data)]
         /\ firstSettled' = [firstSettled EXCEPT ![c] =
                IF @ = 0 /\ reply.ok THEN i ELSE @]
    /\ UNCHANGED <<health, bdnsServices, pc, op, lastHashLinkSSI, newHashLinkSSI,
                   anchoringServicesArray, body, callbacks>>
    /\ UNCHANGED <<pathVars, requested>>

\* Aggregates as Promise.all would: the first rejection ends the wait.
Aggregates_all(c) ==
    /\ pc[c] = "pending"
    /\ \/ allSettled(queries[c])
       \/ \E i \in 1..Len(queries[c]) : queries[c][i].status = "rejected"

\* When the aggregation of a call may run: Promise.allSettled(queries).then.
Aggregates(c) == pc[c] = "pending" /\ allSettled(queries[c])

\* versionsAllSettled without the catch: the TypeError is lost.
versionsAllSettled_nocatch(c) ==
    /\ op[c] = "versions"
    /\ Aggregates(c)
    /\ IF find(queries[c], "fulfilled") = 0
       THEN /\ pc' = [pc EXCEPT ![c] = "done"]
            /\ UNCHANGED callbacks
       ELSE /\ pc' = [pc EXCEPT ![c] = "json"]
            /\ UNCHANGED callbacks
    /\ UNCHANGED <<anchors, health, bdnsServices, op, lastHashLinkSSI, newHashLinkSSI,
                   anchoringServicesArray, body, queries, firstSettled>>
    /\ UNCHANGED <<pathVars, requested>>

\* versions: the handler of Promise.allSettled(queries).then, and the catch.
versionsAllSettled(c) ==
    /\ op[c] = "versions"
    /\ Aggregates(c)
    /\ IF find(queries[c], "fulfilled") = 0
       THEN /\ invoke(c, TypeErr, Undefined)
            /\ pc' = [pc EXCEPT ![c] = "done"]
       ELSE /\ pc' = [pc EXCEPT ![c] = "json"]
            /\ UNCHANGED callbacks
    /\ UNCHANGED <<anchors, health, bdnsServices, op, lastHashLinkSSI, newHashLinkSSI,
                   anchoringServicesArray, body, queries, firstSettled>>
    /\ UNCHANGED <<pathVars, requested>>

\* jsonThen reading the response that arrived first, not the one find chose.
jsonThen_arrival(c) ==
    /\ pc[c] = "json"
    /\ LET response == queries[c][firstSettled[c]]
       IN IF Decodable(response.value)
          THEN invoke(c, NoError, hashLinks(response.value))
          ELSE UNCHANGED callbacks
    /\ pc' = [pc EXCEPT ![c] = "done"]
    /\ UNCHANGED <<anchors, health, bdnsServices, op, lastHashLinkSSI, newHashLinkSSI,
                   anchoringServicesArray, body, queries, firstSettled>>
    /\ UNCHANGED <<pathVars, requested>>

\* versions: the handler of response.value.json().then; a body that does
\* not decode rejects a promise nothing handles, and the callback is not called.
jsonThen(c) ==
    /\ pc[c] = "json"
    /\ LET response == queries[c][find(queries[c], "fulfilled")]
       IN IF Decodable(response.value)
          THEN invoke(c, NoError, hashLinks(response.value))
          ELSE UNCHANGED callbacks
    /\ pc' = [pc EXCEPT ![c] = "done"]
    /\ UNCHANGED <<anchors, health, bdnsServices, op, lastHashLinkSSI, newHashLinkSSI,
                   anchoringServicesArray, body, queries, firstSettled>>
    /\ UNCHANGED <<pathVars, requested>>

\* addVersionAllSettled as Promise.all would aggregate: one rejection fails
\* the call.
addVersionAllSettled_all(c) ==
    /\ op[c] = "addVersion"
    /\ Aggregates(c)
    /\ LET response == find(queries[c], "fulfilled")
           rejected == find(queries[c], "rejected")
       IN IF rejected # 0
          THEN invoke(c, queries[c][rejected].reason, Undefined)
          ELSE invoke(c, NoError, queries[c][response].value)
    /\ pc' = [pc EXCEPT ![c] = "done"]
    /\ UNCHANGED <<anchors, health, bdnsServices, op, lastHashLinkSSI, newHashLinkSSI,
                   anchoringServicesArray, body, queries, firstSettled>>
    /\ UNCHANGED <<pathVars, requested>>

\* addVersionAllSettled reporting a generic error when every write failed.
addVersionAllSettled_generic(c) ==
    /\ op[c] = "addVersion"
    /\ Aggregates(c)
    /\ LET response == find(queries[c], "fulfilled")
       IN IF response = 0
          THEN invoke(c, Error("Error", 0, "Failed to add version"), Undefined)
          ELSE invoke(c, NoError, queries[c][response].value)
    /\ pc' = [pc EXCEPT ![c] = "done"]
    /\ UNCHANGED <<anchors, health, bdnsServices, op, lastHashLinkSSI, newHashLinkSSI,
                   anchoringServicesArray, body, queries, firstSettled>>
    /\ UNCHANGED <<pathVars, requested>>

\* addVersionAllSettled that hands over the response that arrived first.
addVersionAllSettled_arrival(c) ==
    /\ op[c] = "addVersion"
    /\ Aggregates(c)
    /\ LET response == firstSettled[c]
           rejected == find(queries[c], "rejected")
       IN IF response = 0
          THEN invoke(c, queries[c][rejected].reason, Undefined)
          ELSE invoke(c, NoError, queries[c][response].value)
    /\ pc' = [pc EXCEPT ![c] = "done"]
    /\ UNCHANGED <<anchors, health, bdnsServices, op, lastHashLinkSSI, newHashLinkSSI,
                   anchoringServicesArray, body, queries, firstSettled>>
    /\ UNCHANGED <<pathVars, requested>>

\* addVersion: the handler of Promise.allSettled(queries).then.
addVersionAllSettled(c) ==
    /\ op[c] = "addVersion"
    /\ Aggregates(c)
    /\ LET response == find(queries[c], "fulfilled")
           rejected == find(queries[c], "rejected")
       IN IF response = 0
          THEN invoke(c, queries[c][rejected].reason, Undefined)
          ELSE invoke(c, NoError, queries[c][response].value)
    /\ pc' = [pc EXCEPT ![c] = "done"]
    /\ UNCHANGED <<anchors, health, bdnsServices, op, lastHashLinkSSI, newHashLinkSSI,
                   anchoringServicesArray, body, queries, firstSettled>>
    /\ UNCHANGED <<pathVars, requested>>

Next ==
    \E c \in Clients :
        \/ versions(c)
        \/ addVersion(c)
        \/ getAnchoringServicesCallback(c)
        \/ \E i \in Endpoints : fetchSettles(c, i)
        \/ \E i \in Endpoints : doPutCallback(c, i)
        \/ versionsAllSettled(c)
        \/ jsonThen(c)
        \/ addVersionAllSettled(c)

Spec == Init /\ [][Next]_vars

\* The scheduling the code relies on: the BDNS and every service that is not
\* silent answer, and the event loop runs the handler of a settled promise.
\* Nothing obliges a client to make its call.
Progress(c) ==
    \/ getAnchoringServicesCallback(c)
    \/ \E i \in Endpoints : fetchSettles(c, i)
    \/ \E i \in Endpoints : doPutCallback(c, i)
    \/ versionsAllSettled(c)
    \/ jsonThen(c)
    \/ addVersionAllSettled(c)

FairSpec == Spec /\ \A c \in Clients : WF_vars(Progress(c))

\* ----------------------------------------------------- domains and paths
\* The values config.get(constants.CACHE.VAULT_TYPE) can have.
VaultTypes == {Undefined, "fs"}

\* config.set(constants.CACHE.VAULT_TYPE, v): the process sets or clears the
\* cache mode.
configSet ==
    /\ \E v \in VaultTypes \ {vaultType} : vaultType' = v
    /\ UNCHANGED <<anchors, health, bdnsServices, pc, op, lastHashLinkSSI,
                   newHashLinkSSI, anchoringServicesArray, body, queries,
                   firstSettled, callbacks, dlDomain, located, requested, cached>>
    /\ UNCHANGED dossierVars

CacheErrors == {Error("Error", 0, "cache: storage failed")}

\* cachedAnchoring.versions / cachedAnchoring.addVersion call the callback
\* they were handed, with an error or with their result.
cachedAnchoringCallback(c) ==
    /\ pc[c] = "cached"
    /\ \E err \in CacheErrors \cup {NoError} :
          invoke(c, err, IF err = NoError /\ op[c] = "versions" THEN <<>> ELSE Undefined)
    /\ pc' = [pc EXCEPT ![c] = "done"]
    /\ UNCHANGED <<anchors, health, bdnsServices, op, lastHashLinkSSI, newHashLinkSSI,
                   anchoringServicesArray, body, queries, firstSettled, requested>>
    /\ UNCHANGED pathVars

\* Resources of any domain, a cache mode set or not; at most one service is
\* unreachable and the others answer.
InitPaths ==
    /\ anchors = [e \in Endpoints |-> <<>>]
    /\ \E down \in Endpoints \cup {0} :
          health = [e \in Endpoints |-> IF e = down THEN "unreachable" ELSE "up"]
    /\ bdnsServices \in ServiceLists
    /\ dlDomain \in [Clients -> Domains]
    /\ vaultType \in VaultTypes
    /\ Idle
    /\ NoDossier

NextPaths ==
    \/ configSet
    \/ \E c \in Clients :
        \/ versions(c)
        \/ addVersion(c)
        \/ cachedAnchoringCallback(c)
        \/ getAnchoringServicesCallback(c)
        \/ \E i \in Endpoints : fetchSettles(c, i)
        \/ \E i \in Endpoints : doPutCallback(c, i)
        \/ versionsAllSettled(c)
        \/ jsonThen(c)
        \/ addVersionAllSettled(c)

SpecPaths == InitPaths /\ [][NextPaths]_vars

\* ------------------------------------------------------- stored chains
\* The first version of the anchor, as a service stores it once an earlier
\* addVersion(null, h1) was accepted.
FirstVersion == [last |-> Null, new |-> getIdentifier([type |-> "hl", hash |-> "h1"])]

\* A service stops answering: from now on requests to it get no response.
serviceFails(e) ==
    /\ \A x \in Endpoints : health[x] = "up"
    /\ health' = [health EXCEPT ![e] = "unreachable"]
    /\ UNCHANGED <<anchors, bdnsServices, pc, op, lastHashLinkSSI, newHashLinkSSI,
                   anchoringServicesArray, body, queries, firstSettled, callbacks,
                   dlDomain, vaultType, located, requested, cached>>
    /\ UNCHANGED dossierVars

\* The state earlier calls left: the BDNS lists every service; either no
\* service holds a version, or the first service of the list holds the first
\* version and the others hold nothing (the write did not reach them);
\* every service answers.
InitStored ==
    /\ \E stored \in {<<>>, <<FirstVersion>>} :
          anchors = [e \in Endpoints |-> IF e = 1 THEN stored ELSE <<>>]
    /\ health = [e \in Endpoints |-> "up"]
    /\ bdnsServices = [i \in 1..MaxEndpoints |-> i]
    /\ dlDomain = [c \in Clients |-> "default"]
    /\ vaultType = Undefined
    /\ Idle
    /\ NoDossier

NextStored ==
    \/ \E e \in Endpoints : serviceFails(e)
    \/ \E c \in Clients :
        \/ versions(c)
        \/ addVersion(c)
        \/ getAnchoringServicesCallback(c)
        \/ \E i \in Endpoints : fetchSettles(c, i)
        \/ \E i \in Endpoints : doPutCallback(c, i)
        \/ versionsAllSettled(c)
        \/ jsonThen(c)
        \/ addVersionAllSettled(c)

SpecStored == InitStored /\ [][NextStored]_vars

\* --------------------------------------------------------- DossierBuilder
MaxCommands == 2
MaxBuilds == 2

\* The command names _getByName knows, and one it does not know.
Recognized == {"addfolder", "delete"}
CommandNames == Recognized \cup {"bogus"}
\* The command lists buildDossier can be given ([] when it is given none).
CommandLists == UNION {[1..n -> CommandNames] : n \in 0..MaxCommands}
\* What the seed file can hold: a key names the stored DSU and carries a
\* domain, or none.
SeedFiles ==
    {SeedFile(kind, NoKey) : kind \in {"missing", "empty", "invalid"}}
        \cup {SeedFile("key", KeySSI(d, "stored")) : d \in Domains \cup {""}}
\* What buildDossier can be given as configOrDSU.
Configs == {Config(d, FALSE) : d \in Domains} \cup {ArchiveConfig}

WalletError == Error("Error", 0, "build wallet not initialised")
EnclaveError == Error("Error", 0, "shared enclave not available")
DSUError == Error("Error", 0, "DSU not available")
BatchError == Error("Error", 0, "beginBatch threw")
CommandError == Error("Error", 0, "command failed")
FileError == Error("Error", 0, "file not written")
NotRecognized(cmdName) == Error("String", 0, "Command not recognized: " \o cmdName)

\* One entry of the trace.
Ev(ev, arg) == [ev |-> ev, arg |-> arg]

\* callback(err, keySSI) of buildDossier, after the events of t.
buildCallback(t, err, keySSI) ==
    /\ buildCallbacks' = Append(buildCallbacks, [err |-> err, keySSI |-> keySSI])
    /\ trace' = t
    /\ dpc' = "done"

\* runCommand(bar, command, next, callback): a command _getByName knows is
\* executed, any other goes to the callback as an error at once.
runCommand(command, t) ==
    IF command \in Recognized
    THEN /\ trace' = Append(t, Ev("execute", command))
         /\ dpc' = "run"
         /\ UNCHANGED buildCallbacks
    ELSE buildCallback(Append(t, Ev("notRecognized", command)), NotRecognized(command), NoKey)

\* updateDossier(bar, cfg, commands, callback), up to its first wait: with
\* no command left it calls commitBatch; otherwise it opens a batch unless
\* one is in progress (beginBatch may throw), shifts the first command off
\* the list and runs it.
updateDossier(b, t) ==
    IF commands = <<>>
    THEN /\ trace' = Append(t, Ev("commitBatch", ""))
         /\ dpc' = "commit"
         /\ bar' = b
         /\ UNCHANGED <<commands, buildCallbacks>>
    ELSE \E throws \in IF b.batch THEN {FALSE} ELSE BOOLEAN :
           IF throws
           THEN /\ buildCallback(Append(t, Ev("beginBatch", "throws")), BatchError, NoKey)
                /\ bar' = b
                /\ UNCHANGED commands
           ELSE /\ bar' = [b EXCEPT !.batch = TRUE]
                /\ commands' = Tail(commands)
                /\ runCommand(Head(commands),
                              IF b.batch THEN t ELSE Append(t, Ev("beginBatch", "")))

\* createDossier(conf, commands, callback), up to its wait for the enclave.
createDossier(t) ==
    /\ trace' = Append(t, Ev("createDossier", configOrDSU.domain))
    /\ dpc' = "createEnclave"
    /\ UNCHANGED <<commands, bar, buildCallbacks>>

\* A check that never sees a change of domain.
DomainChanged_never(keySSI, conf) == FALSE

\* keySSI.getDLDomain() && keySSI.getDLDomain() !== configOrDSU.domain
DomainChanged(keySSI, conf) == keySSI.domain # "" /\ keySSI.domain # conf.domain

\* builder(keySSI): a content that does not parse, or a key of another
\* domain, makes a new dossier; otherwise the enclave is asked for, to load
\* the DSU of the key.
builder(content, t) ==
    IF content.kind = "invalid"
    THEN createDossier(Append(t, Ev("parse", "throws")))
    ELSE IF DomainChanged(content.keySSI, configOrDSU)
    THEN createDossier(Append(t, Ev("parsed", content.keySSI.domain)))
    ELSE /\ trace' = Append(t, Ev("parsed", content.keySSI.domain))
         /\ dpc' = "loadEnclave"
         /\ UNCHANGED <<commands, bar, buildCallbacks>>

\* The object buildDossier was given before, passed again: it keeps the
\* skipFsWrite the builder set on it, and the caller may have changed its
\* domain in between.
SameObject ==
    IF configOrDSU.constructor = "Object"
    THEN {[configOrDSU EXCEPT !.domain = d] : d \in Domains}
    ELSE {configOrDSU}

\* buildDossier(configOrDSU, commands, callback): the same config object as
\* before or another one, and any list of commands.
buildDossier ==
    /\ dpc \in {"idle", "done"}
    /\ builds < MaxBuilds
    /\ builds' = builds + 1
    /\ \E conf \in Configs \cup SameObject, cmds \in CommandLists :
          /\ configOrDSU' = conf
          /\ commands' = cmds
          /\ given' = cmds
    /\ dpc' = "init"
    /\ bar' = NoBar
    /\ trace' = <<>>
    /\ buildCallbacks' = <<>>
    /\ UNCHANGED <<sourceDSU, seedFile>>
    /\ UNCHANGED anchoringVars

\* The callback of initialiseBuildWallet.
initialiseBuildWalletCallback ==
    /\ dpc = "init"
    /\ \E err \in {NoError, WalletError} :
          IF err # NoError
          THEN buildCallback(trace, err, NoKey) /\ UNCHANGED <<commands, bar>>
          ELSE IF configOrDSU.constructor = "Archive"
          THEN \E batch \in BOOLEAN :
                 updateDossier(Archive(KeySSI("default", "destination"), batch, "given"), trace)
          ELSE /\ dpc' = "readSeed"
               /\ UNCHANGED <<commands, bar, trace, buildCallbacks>>
    /\ UNCHANGED <<sourceDSU, configOrDSU, seedFile, given, builds>>
    /\ UNCHANGED anchoringVars

\* The callback of readFile(configOrDSU.seed).
readFileCallback ==
    /\ dpc = "readSeed"
    /\ IF seedFile.kind \in {"missing", "empty"}
       THEN createDossier(trace)
       ELSE builder(seedFile, trace)
    /\ UNCHANGED <<sourceDSU, configOrDSU, seedFile, given, builds>>
    /\ UNCHANGED anchoringVars

\* createDossier: the callback of _getSharedEnclave; createDSU is called
\* with a template seed of conf.domain.
createDossierEnclaveCallback ==
    /\ dpc = "createEnclave"
    /\ \E err \in {NoError, EnclaveError} :
          IF err # NoError
          THEN buildCallback(trace, err, NoKey)
          ELSE /\ trace' = Append(trace, Ev("createDSU", configOrDSU.domain))
               /\ dpc' = "createDSU"
               /\ UNCHANGED buildCallbacks
    /\ UNCHANGED <<commands, bar>>
    /\ UNCHANGED <<sourceDSU, configOrDSU, seedFile, given, builds>>
    /\ UNCHANGED anchoringVars

\* createDossier: the callback of sharedEnclave.createDSU.
createDSUCallback ==
    /\ dpc = "createDSU"
    /\ \E err \in {NoError, DSUError} :
          IF err # NoError
          THEN buildCallback(trace, err, NoKey) /\ UNCHANGED <<commands, bar>>
          ELSE updateDossier(Archive(KeySSI(configOrDSU.domain, "new"), FALSE, "created"),
                             trace)
    /\ UNCHANGED <<sourceDSU, configOrDSU, seedFile, given, builds>>
    /\ UNCHANGED anchoringVars

\* builder: the callback of _getSharedEnclave; loadDSU is called with the
\* key of the seed file.
builderEnclaveCallback ==
    /\ dpc = "loadEnclave"
    /\ \E err \in {NoError, EnclaveError} :
          IF err # NoError
          THEN buildCallback(trace, err, NoKey)
          ELSE /\ trace' = Append(trace, Ev("loadDSU", seedFile.keySSI.dsu))
               /\ dpc' = "loadDSU"
               /\ UNCHANGED buildCallbacks
    /\ UNCHANGED <<commands, bar>>
    /\ UNCHANGED <<sourceDSU, configOrDSU, seedFile, given, builds>>
    /\ UNCHANGED anchoringVars

\* builder: the callback of sharedEnclave.loadDSU. It sets skipFsWrite on
\* the config; a DSU that cannot be loaded is created anew under the same
\* key. The loaded DSU may have a batch in progress.
loadDSUCallback ==
    /\ dpc = "loadDSU"
    /\ configOrDSU' = [configOrDSU EXCEPT !.skipFsWrite = TRUE]
    /\ \E err \in {NoError, DSUError} :
          IF err # NoError
          THEN /\ trace' = Append(trace, Ev("createDSU", "useSSIAsIdentifier"))
               /\ dpc' = "recreateDSU"
               /\ UNCHANGED <<commands, bar, buildCallbacks>>
          ELSE \E batch \in BOOLEAN :
                 updateDossier(Archive(seedFile.keySSI, batch, "loaded"), trace)
    /\ UNCHANGED <<sourceDSU, seedFile, given, builds>>
    /\ UNCHANGED anchoringVars

\* builder: the callback of sharedEnclave.createDSU(keySSI, {useSSIAsIdentifier}).
recreateDSUCallback ==
    /\ dpc = "recreateDSU"
    /\ \E err \in {NoError, DSUError} :
          IF err # NoError
          THEN buildCallback(trace, err, NoKey) /\ UNCHANGED <<commands, bar>>
          ELSE updateDossier(Archive(seedFile.keySSI, FALSE, "recreated"), trace)
    /\ UNCHANGED <<sourceDSU, configOrDSU, seedFile, given, builds>>
    /\ UNCHANGED anchoringVars

\* The command that is being executed.
Running == trace[Len(trace)].arg

\* executeCallback that goes on to the next command after an error.
executeCallback_goesOn ==
    /\ dpc = "run"
    /\ \E err \in {NoError, CommandError} :
          updateDossier(bar, Append(trace, Ev(IF err # NoError THEN "failed" ELSE "executed",
                                              Running)))
    /\ UNCHANGED <<sourceDSU, configOrDSU, seedFile, given, builds>>
    /\ UNCHANGED anchoringVars

\* updateDossier: the callback it gives runCommand, called by the command.
executeCallback ==
    /\ dpc = "run"
    /\ \E err \in {NoError, CommandError} :
          IF err # NoError
          THEN /\ buildCallback(Append(trace, Ev("failed", Running)), err, NoKey)
               /\ UNCHANGED <<commands, bar>>
          ELSE updateDossier(bar, Append(trace, Ev("executed", Running)))
    /\ UNCHANGED <<sourceDSU, configOrDSU, seedFile, given, builds>>
    /\ UNCHANGED anchoringVars

\* updateDossier: the callback of bar.commitBatch; saveDSU asks for the key.
commitBatchCallback ==
    /\ dpc = "commit"
    /\ \E err \in {NoError, DSUError} :
          IF err # NoError
          THEN /\ buildCallback(Append(trace, Ev("commitFailed", "")), err, NoKey)
               /\ UNCHANGED bar
          ELSE /\ trace' = Append(trace, Ev("committed", ""))
               /\ bar' = [bar EXCEPT !.batch = FALSE]
               /\ dpc' = "getKey"
               /\ UNCHANGED buildCallbacks
    /\ UNCHANGED <<commands, sourceDSU, configOrDSU, seedFile, given, builds>>
    /\ UNCHANGED anchoringVars

\* cfg.skipFsWrite in saveDSU: cfg is the config object, or {skipFsWrite:
\* true} when buildDossier was given the destination DSU.
SkipFsWrite == configOrDSU.constructor = "Archive" \/ configOrDSU.skipFsWrite

\* saveDSU: the callback of bar.getKeySSIAsString.
getKeySSIAsStringCallback ==
    /\ dpc = "getKey"
    /\ \E err \in {NoError, DSUError} :
          IF err # NoError
          THEN buildCallback(trace, err, NoKey)
          ELSE IF sourceDSU \/ SkipFsWrite
          THEN buildCallback(trace, NoError, bar.keySSI)
          ELSE /\ trace' = Append(trace, Ev("writeFile", bar.keySSI.dsu))
               /\ dpc' = "store"
               /\ UNCHANGED buildCallbacks
    /\ UNCHANGED <<commands, bar, sourceDSU, configOrDSU, seedFile, given, builds>>
    /\ UNCHANGED anchoringVars

\* storeKeySSI: the callback of writeFile(cfg.seed, barKeySSI).
writeFileCallback ==
    /\ dpc = "store"
    /\ \E err \in {NoError, FileError} :
          IF err # NoError
          THEN buildCallback(trace, err, NoKey) /\ UNCHANGED seedFile
          ELSE /\ seedFile' = SeedFile("key", bar.keySSI)
               /\ buildCallback(Append(trace, Ev("written", bar.keySSI.dsu)),
                                NoError, bar.keySSI)
    /\ UNCHANGED <<commands, bar, sourceDSU, configOrDSU, given, builds>>
    /\ UNCHANGED anchoringVars

\* A builder with or without a sourceDSU, any seed file, and no anchoring
\* call.
InitDossier ==
    /\ anchors = [e \in Endpoints |-> <<>>]
    /\ health = [e \in Endpoints |-> "up"]
    /\ bdnsServices = <<>>
    /\ dlDomain = [c \in Clients |-> "default"]
    /\ vaultType = Undefined
    /\ Idle
    /\ DossierIdle
    /\ sourceDSU \in BOOLEAN
    /\ configOrDSU = Config("default", FALSE)
    /\ seedFile \in SeedFiles

NextDossier ==
    \/ buildDossier
    \/ initialiseBuildWalletCallback
    \/ readFileCallback
    \/ createDossierEnclaveCallback
    \/ createDSUCallback
    \/ builderEnclaveCallback
    \/ loadDSUCallback
    \/ recreateDSUCallback
    \/ executeCallback
    \/ commitBatchCallback
    \/ getKeySSIAsStringCallback
    \/ writeFileCallback

SpecDossier == InitDossier /\ [][NextDossier]_vars

\* ------------------------------------------------------------ vocabulary
\* The number of requests of the call of c (0 before the BDNS answered).
N(c) == Len(queries[c])
Idx(c) == 1..N(c)
IsFulfilled(c, i) == queries[c][i].status = "fulfilled"
IsRejected(c, i) == queries[c][i].status = "rejected"
Over(c) == pc[c] = "done"
\* The callback of c was called exactly once, without an error.
Success(c) == Len(callbacks[c]) = 1 /\ callbacks[c][1].err = NoError
\* The callback of c was called exactly once, with an error.
Failure(c) == Len(callbacks[c]) = 1 /\ callbacks[c][1].err # NoError
\* The service behind the request of index i of the call of c.
Service(c, i) == anchoringServicesArray[c][i]
\* The service of index i holds the version the call of c asked to add.
Holds(c, i) == \E k \in 1..Len(anchors[Service(c, i)]) : anchors[Service(c, i)][k] = body[c].hash

\* ------------------------------------------------------------------- C1
\* C1: addVersion with N >= 1 services, all requests settled and the
\* aggregation done: if at least one service accepted the write, the callback
\* was called once, without error, with the response body of a service that
\* accepted (one that holds the new version), whatever the other services
\* rejected with.
C1_AcceptedWriteSucceeds ==
    \A c \in Clients :
        (op[c] = "addVersion" /\ Over(c) /\ N(c) >= 1
            /\ \E i \in Idx(c) : IsFulfilled(c, i))
        => /\ Success(c)
           /\ \E i \in Idx(c) :
                /\ IsFulfilled(c, i)
                /\ Holds(c, i)
                /\ callbacks[c][1].result = [service |-> Service(c, i), accepted |-> body[c].hash.new]

\* C1's case: three services, two rejected with 428 and one accepted, and the
\* call succeeded.
C1_Witness ==
    \E c \in Clients :
        /\ op[c] = "addVersion" /\ Over(c) /\ N(c) = 3 /\ Success(c)
        /\ Cardinality({i \in Idx(c) : IsFulfilled(c, i)}) = 1
        /\ Cardinality({i \in Idx(c) : IsRejected(c, i)
                                        /\ queries[c][i].reason.statusCode = CONFLICT}) = 2

\* ------------------------------------------------------------------- C2
\* C2: the reason of every rejected write promise is the translation of what
\* its service answered: a conflict (the service is up and refused) carries
\* statusCode 428 and the message 'Unable to add alias: versions out of
\* sync'; a 500 without a message carries 500 and 'Error'; a refused
\* connection keeps its message and has no statusCode.  And the error handed
\* to the callback when every write was rejected is classified a conflict
\* exactly when the rejection it was taken from is a conflict.
IsConflict(err) == err.statusCode = CONFLICT /\ err.message = OutOfSync
LooksLikeConflict(err) == err.statusCode = CONFLICT \/ err.message = OutOfSync

C2_ConflictDistinguished ==
    \A c \in Clients : op[c] = "addVersion" =>
        /\ \A i \in Idx(c) : IsRejected(c, i) =>
              LET r == queries[c][i].reason
                  h == health[Service(c, i)]
              IN /\ h = "up" => r.statusCode = 428 /\ r.message = OutOfSync
                 /\ h = "faulty" => r.statusCode = 500 /\ r.message = "Error"
                 /\ h = "unreachable" => r.statusCode = 0 /\ r.message = "ECONNREFUSED"
                 /\ LooksLikeConflict(r) <=> h = "up"
        /\ (Over(c) /\ N(c) >= 1 /\ Failure(c)) =>
              \E i \in Idx(c) :
                  /\ IsRejected(c, i)
                  /\ callbacks[c][1].err = queries[c][i].reason
                  /\ IsConflict(callbacks[c][1].err) <=> health[Service(c, i)] = "up"
                  /\ LooksLikeConflict(callbacks[c][1].err) <=> health[Service(c, i)] = "up"

\* C2's case: every write of a call was rejected, by a conflict and by another
\* failure, and the callback received the conflict.
C2_Witness ==
    \E c \in Clients :
        /\ op[c] = "addVersion" /\ Over(c) /\ N(c) >= 2 /\ Failure(c)
        /\ IsConflict(callbacks[c][1].err)
        /\ \E j \in Idx(c) : IsRejected(c, j) /\ queries[c][j].reason.message = "Error"

\* ------------------------------------------------------------------- C3
\* The chain handed to the callback of a versions call.
Chain(c) == callbacks[c][1].result
\* The body of the response of index i, decoded: each identifier of the JSON
\* array becomes the hash link it names.
Decoded(c, i) ==
    [k \in 1..Len(queries[c][i].value.body) |->
        [type |-> "hl", hash |-> queries[c][i].value.body[k][3]]]
\* A versions call of c is over and handed a chain to the callback.
GotChain(c) == op[c] = "versions" /\ Over(c) /\ N(c) >= 1 /\ Success(c)

ServedValidChain(c, i) == IsFulfilled(c, i) /\ queries[c][i].value.json

\* C4: versions with N >= 2 services, every request settled and the call
\* over: if at least one service answered with a valid chain, the callback
\* was called once with a chain (no error, no silence), and the chain is the
\* one a successfully answering service served, wherever the failing
\* services stand in the list.
C4_OneGoodServiceSuffices ==
    \A c \in Clients :
        (op[c] = "versions" /\ Over(c) /\ N(c) >= 2
            /\ \E i \in Idx(c) : ServedValidChain(c, i))
        => /\ Success(c)
           /\ \E i \in Idx(c) : ServedValidChain(c, i) /\ Chain(c) = Decoded(c, i)

\* ------------------------------------------------------------------- C5
\* C5: versions with N >= 1 services: when no response fulfilled, the
\* callback is never called with a chain, and once the call is over it was
\* called exactly once, with an error.
C5_AllReadsFailed ==
    \A c \in Clients :
        (op[c] = "versions" /\ N(c) >= 1 /\ \A i \in Idx(c) : IsRejected(c, i))
        => /\ \A k \in 1..Len(callbacks[c]) : callbacks[c][k].err # NoError
           /\ Over(c) => Failure(c) /\ callbacks[c][1].result = Undefined

\* C5's case: a versions call over two services or more, all of which failed,
\* is over.
C5_Witness ==
    \E c \in Clients :
        /\ op[c] = "versions" /\ Over(c) /\ N(c) >= 2
        /\ \A i \in Idx(c) : IsRejected(c, i)
        /\ Failure(c)

\* ------------------------------------------------------------------- C6
\* C6: addVersion with N >= 1 services: when every service rejected the
\* write and the call is over, the callback was called once, with an error,
\* and the error is the reason one of the N promises of this call was
\* rejected with: what the service behind it answered, not an error made up
\* by the aggregation.
TrueCause(c, i, err) ==
    /\ IsRejected(c, i)
    /\ err = queries[c][i].reason
    /\ err.statusCode = (CASE health[Service(c, i)] = "up" -> 428
                           [] health[Service(c, i)] = "faulty" -> 500
                           [] OTHER -> 0)

C6_AllWritesRejected ==
    \A c \in Clients :
        (op[c] = "addVersion" /\ Over(c) /\ N(c) >= 1
            /\ \A i \in Idx(c) : IsRejected(c, i))
        => /\ Failure(c)
           /\ callbacks[c][1].result = Undefined
           /\ \E i \in Idx(c) : TrueCause(c, i, callbacks[c][1].err)

\* C6's case: every write of a call over three services was rejected, for
\* two different reasons.
C6_Witness ==
    \E c \in Clients :
        /\ op[c] = "addVersion" /\ Over(c) /\ N(c) = 3 /\ Failure(c)
        /\ \A i \in Idx(c) : IsRejected(c, i)
        /\ \E i, j \in Idx(c) : queries[c][i].reason # queries[c][j].reason

\* ------------------------------------------------------------------- C7
\* Both clients add a version, stating the same previous pointer and
\* different new pointers, to the same N >= 1 services.
TwoWriters ==
    /\ \A c \in Clients : op[c] = "addVersion" /\ N(c) >= 1
    /\ \A c, d \in Clients :
          /\ lastHashLinkSSI[c] = lastHashLinkSSI[d]
          /\ c # d => newHashLinkSSI[c] # newHashLinkSSI[d]

\* C7 as stated: of two writers stating the same previous pointer, at most
\* one receives success.
C7_AtMostOneWriterSucceeds ==
    TwoWriters => ~(\A c \in Clients : Over(c) /\ Success(c))

\* C7 amended: of two writers stating the same previous pointer, no service
\* accepts both writes; hence with one service (N = 1) at most one of the
\* two calls receives success.  With N >= 2 both can succeed, each through
\* another service.
C7_NoServiceAcceptsBoth ==
    TwoWriters =>
        /\ \A i \in 1..Len(bdnsServices) :
              /\ ~(\A c \in Clients : IsFulfilled(c, i))
              /\ ~(\A c \in Clients : Holds(c, i))
        /\ Len(bdnsServices) = 1 => ~(\A c \in Clients : Over(c) /\ Success(c))

\* C7's case: two writers of the same previous pointer on one service, both
\* calls over: one succeeded, the other received the conflict.
C7_Witness ==
    /\ TwoWriters
    /\ Len(bdnsServices) = 1
    /\ \E c, d \in Clients :
          /\ Over(c) /\ Success(c)
          /\ Over(d) /\ Failure(d) /\ callbacks[d][1].err.statusCode = CONFLICT

\* ------------------------------------------------------------------- C8
\* Every version a service holds was written with 'last' equal to the
\* version just before it (null for the first).
ChainLinked ==
    \A e \in Endpoints :
        \A k \in 1..Len(anchors[e]) :
            anchors[e][k].last = IF k = 1 THEN Null ELSE anchors[e][k - 1].new

\* A step changes the chain of a service only by appending the version of a
\* pending write whose 'last' is the head of the chain (null for an empty one).
AppendOnly ==
    \A e \in Endpoints :
        \/ anchors'[e] = anchors[e]
        \/ \E c \in Clients :
              /\ op[c] = "addVersion" /\ pc[c] = "pending"
              /\ body[c].hash.last =
                    IF anchors[e] = <<>> THEN Null ELSE anchors[e][Len(anchors[e])].new
              /\ anchors'[e] = Append(anchors[e], body[c].hash)

\* C8: a service accepts a write only if its stated previous pointer is the
\* head of the service's chain (both absent for the first version); so the
\* chain of every service only grows at its end, and every version in it was
\* written with 'last' equal to the version before it.
C8_AppendOnlyChains == []ChainLinked /\ [][AppendOnly]_vars

\* C8's case: a service accepted a first version and then a second one on
\* top of it.
C8_Witness == \E e \in Endpoints : Len(anchors[e]) = 2

\* ------------------------------------------------------------------- C9
\* A versions call over two services or more, each up or silent: one never
\* answers, another has answered with its chain.
OneSilentOneAnswered(c) ==
    /\ op[c] = "versions" /\ pc[c] = "pending" /\ N(c) >= 2
    /\ \A i \in Idx(c) : health[Service(c, i)] \in {"up", "silent"}
    /\ \E i \in Idx(c) : health[Service(c, i)] = "silent"
    /\ \E j \in Idx(c) : ServedValidChain(c, j)

\* C9: a read over two services or more, one of which never answers while
\* another returned its chain, completes all the same: the callback is
\* eventually called with a chain.
C9_ReadNotBlocked ==
    \A c \in Clients : OneSilentOneAnswered(c) ~> Success(c)

\* ------------------------------------------------------------------ C10
\* C10: versions and addVersion call the callback only when every one of the
\* N requests has settled: while a request is pending the aggregation has
\* not run and the callback was not called; and the rejection of one request
\* leaves the pending requests to services that answer able to settle.
C10_CallbackAfterAllSettled ==
    \A c \in Clients : N(c) >= 1 =>
        \A i \in Idx(c) : queries[c][i].status = "pending" =>
            /\ callbacks[c] = <<>>
            /\ pc[c] = "pending"
            /\ health[Service(c, i)] # "silent" =>
                  ENABLED (fetchSettles(c, i) \/ doPutCallback(c, i))

\* C10's case: a versions call and an addVersion call over two services or
\* more, each with a rejected and a fulfilled request, called their callbacks.
C10_Witness ==
    \E c, d \in Clients :
        /\ op[c] = "versions" /\ op[d] = "addVersion"
        /\ \A x \in {c, d} :
              /\ Over(x) /\ Len(callbacks[x]) = 1
              /\ \E i, j \in Idx(x) : IsRejected(x, i) /\ IsFulfilled(x, j)

\* ------------------------------------------------------------------ C11
\* C11: every call of versions and of addVersion whose locator and requests
\* all settled called the callback exactly once, with an error or with a
\* result, also when the chosen response cannot be decoded and when every
\* service failed.
C11_CallbackExactlyOnce ==
    \A c \in Clients : Over(c) => Len(callbacks[c]) = 1

\* ------------------------------------------------------------------ C12
\* The locator failed the call of c: the call is past the BDNS and it has no
\* list of services.
LocatorFailed(c) ==
    pc[c] \in {"pending", "json", "done"} /\ anchoringServicesArray[c] = <<>>

\* C12: when the BDNS returns an error or an empty list, on versions and on
\* addVersion, the callback was called at once with that error, or with 'No
\* anchoring service provided' for the empty list; no request was sent to a
\* service and the BDNS was asked once only.
C12_LocatorFailureIsFatal ==
    \A c \in Clients : LocatorFailed(c) =>
        /\ pc[c] = "done"
        /\ Len(callbacks[c]) = 1
        /\ \/ callbacks[c][1].err \in BdnsErrors
           \/ /\ callbacks[c][1].err.message = NoService
              /\ Registry(dlDomain[c]) = <<>>
        /\ requested[c] = <<>>
        /\ queries[c] = <<>>
        /\ Len(located[c]) = 1

\* C12's case: a versions call ended on the error of the BDNS and an
\* addVersion call on its empty list, or the other way round.
C12_Witness ==
    \E c, d \in Clients :
        /\ op[c] # op[d] /\ op[c] # "none" /\ op[d] # "none"
        /\ LocatorFailed(c) /\ LocatorFailed(d)
        /\ Len(callbacks[c]) = 1 /\ callbacks[c][1].err \in BdnsErrors
        /\ Len(callbacks[d]) = 1 /\ callbacks[d][1].err.message = NoService

\* ------------------------------------------------------------------ C13
\* A call of c starts in this step.
Starts(c) == pc[c] = "idle" /\ pc'[c] # "idle"

\* The call that starts goes to cachedAnchoring exactly when its resource is
\* in the vault domain and a cache mode is set at that moment.
PathChosen ==
    \A c \in Clients : Starts(c) =>
        (pc'[c] = "cached" <=> (dlDomain[c] = VAULT /\ vaultType # Undefined))

\* A call on the cache path asked the BDNS nothing and sent no request; a
\* call on the network path did not call cachedAnchoring.
PathsApart ==
    \A c \in Clients :
        /\ cached[c] + Len(located[c]) = (IF pc[c] = "idle" THEN 0 ELSE 1)
        /\ cached[c] > 0 =>
              located[c] = <<>> /\ requested[c] = <<>> /\ queries[c] = <<>>
        /\ (located[c] # <<>> \/ requested[c] # <<>>) => cached[c] = 0

\* C13: each call chooses its path when it is made: cachedAnchoring if and
\* only if the domain of the resource is the vault domain and a cache mode is
\* configured at that time; a call on the cache path contacts neither the
\* BDNS nor a service, and a call on the network path never calls
\* cachedAnchoring.
C13_PathSelection == [][PathChosen]_vars /\ []PathsApart

\* C13's case: two calls on resources of the vault domain, one served by
\* cachedAnchoring and one that went through the network (the cache mode
\* changed between them), and both called back.
C13_Witness ==
    \E c, d \in Clients :
        /\ dlDomain[c] = VAULT /\ dlDomain[d] = VAULT
        /\ Over(c) /\ cached[c] = 1 /\ Len(callbacks[c]) = 1
        /\ Over(d) /\ requested[d] # <<>> /\ Len(callbacks[d]) = 1

\* ------------------------------------------------------------------ C18
\* The services the BDNS registers for the domain of the resource of c.
ServicesOf(c) == {Registry(dlDomain[c])[i] : i \in 1..Len(Registry(dlDomain[c]))}

\* The write of c reached the chain of service e.
Wrote(c, e) ==
    /\ op[c] = "addVersion" /\ pc[c] \in {"pending", "done"}
    /\ \E k \in 1..Len(anchors[e]) : anchors[e][k] = body[c].hash

\* C18: whatever calls are made, a request for a resource of a domain goes
\* only to the services the BDNS returned for that domain in that call; a
\* service registered for another domain only is never contacted for it, and
\* its chain never receives the write.
C18_DomainIsolation ==
    \A c \in Clients :
        /\ \A i \in 1..Len(requested[c]) : requested[c][i] \in ServicesOf(c)
        /\ \A i \in 1..Len(located[c]) : located[c][i] = dlDomain[c]
        /\ \A e \in Endpoints : Wrote(c, e) => e \in ServicesOf(c)

\* C18's case: two calls on resources of different domains, each domain with
\* services of its own, both on the network path and both over, one of them
\* a write that a service of its domain accepted.
C18_Witness ==
    \E c, d \in Clients :
        /\ dlDomain[c] # dlDomain[d]
        /\ Over(c) /\ requested[c] # <<>>
        /\ Over(d) /\ requested[d] # <<>>
        /\ \E e \in Endpoints : Wrote(c, e)

\* ------------------------------------------------------------------ C16
\* The call of c is on the network path and the BDNS gave it services.
Located(c) ==
    pc[c] \in {"pending", "json", "done"} /\ anchoringServicesArray[c] # <<>>

\* C16: during a versions or addVersion call on the network path, one
\* request and one only is sent to each service the BDNS returned, in every
\* state of the call: also after a service answered 428 or could not be
\* reached, and after the callback was called.
C16_OneRequestPerService ==
    \A c \in Clients : Located(c) =>
        /\ anchoringServicesArray[c] = Registry(dlDomain[c])
        /\ requested[c] = anchoringServicesArray[c]
        /\ N(c) = Len(anchoringServicesArray[c])
        /\ \A e \in Endpoints :
              Cardinality({i \in 1..Len(requested[c]) : requested[c][i] = e})
                 = (IF \E i \in Idx(c) : Service(c, i) = e THEN 1 ELSE 0)

\* C16's case: an addVersion call over two services or more ended after one
\* service answered 428 and another could not be reached, and a versions
\* call ended after a request of its own was rejected.
C16_Witness ==
    \E c, d \in Clients :
        /\ op[c] = "addVersion" /\ Located(c) /\ Over(c)
        /\ \E i, j \in Idx(c) :
              /\ IsRejected(c, i) /\ queries[c][i].reason.statusCode = CONFLICT
              /\ IsRejected(c, j) /\ queries[c][j].reason.message = "ECONNREFUSED"
        /\ op[d] = "versions" /\ Located(d) /\ Over(d)
        /\ \E i \in Idx(d) : IsRejected(d, i)

\* ------------------------------------------------------------------ C15
\* The variables of the call of c.
CallState(c) ==
    <<pc[c], op[c], lastHashLinkSSI[c], newHashLinkSSI[c], anchoringServicesArray[c],
      body[c], queries[c], callbacks[c], located[c], requested[c], cached[c]>>

\* The request of index i of the call of c settles in this step, with st.
Settles(c, i, st) ==
    /\ i \in Idx(c) /\ queries[c][i].status = "pending"
    /\ queries'[c][i].status = st

\* The version addVersion was asked to add by c, as a service stores it.
AskedVersion(c) ==
    [last |-> IF lastHashLinkSSI[c] # NoHashLink
              THEN getIdentifier(lastHashLinkSSI[c]) ELSE Null,
     new |-> getIdentifier(newHashLinkSSI[c])]

\* What one step may change: the chain of a service changes only when it
\* accepts the write of an addVersion call, by the append of that call's new
\* version; a rejected write and every step of a versions call leave the
\* chains alone; and a step of one call leaves the other calls as they were.
Frame ==
    /\ \A e \in Endpoints : anchors'[e] # anchors[e] =>
          \E c \in Clients : \E i \in Idx(c) :
              /\ op[c] = "addVersion" /\ Service(c, i) = e
              /\ Settles(c, i, "fulfilled")
              /\ anchors'[e] = Append(anchors[e], AskedVersion(c))
    /\ \A c \in Clients : \A i \in Idx(c) :
          /\ Settles(c, i, "fulfilled") /\ op[c] = "addVersion" =>
                /\ anchors'[Service(c, i)] = Append(anchors[Service(c, i)], AskedVersion(c))
                /\ \A e \in Endpoints \ {Service(c, i)} : anchors'[e] = anchors[e]
          /\ Settles(c, i, "rejected") => anchors' = anchors
    /\ \A c \in Clients :
          op'[c] = "versions" /\ CallState(c)' # CallState(c) => anchors' = anchors
    /\ \A c, d \in Clients :
          c # d /\ CallState(c)' # CallState(c) => CallState(d)' = CallState(d)

\* C15: a versions call leaves the chain of every service unchanged; an
\* addVersion call changes the chains of the services that accepted it only,
\* each by appending exactly the new version, and leaves the chain of every
\* service that rejected it unchanged; a call leaves no state behind that
\* another call sees, other than the chains.
C15_Frame == [][Frame]_vars

\* C15's case: an addVersion call over two services or more is over, one
\* service accepted it and holds the new version, another rejected it and
\* holds nothing of it, and a versions call is over too.
C15_Witness ==
    \E c, d \in Clients :
        /\ op[c] = "addVersion" /\ Over(c) /\ op[d] = "versions" /\ Over(d)
        /\ N(d) >= 1
        /\ \E i, j \in Idx(c) :
              /\ IsFulfilled(c, i) /\ Holds(c, i)
              /\ anchors[Service(c, i)] = <<AskedVersion(c)>>
              /\ IsRejected(c, j) /\ anchors[Service(c, j)] = <<>>

\* ------------------------------------------------------------------ C14
\* The index of the response versions hands to the callback of d: the
\* lowest index of a fulfilled request.
Chosen(d) == CHOOSE i \in Idx(d) : IsFulfilled(d, i) /\ \A j \in 1..(i - 1) : ~IsFulfilled(d, j)

\* addVersion of c succeeded and service e accepted it; then versions of d
\* was answered by e, with the chain e holds since that write.
ReadAfterWrite(c, d, e) ==
    /\ op[c] = "addVersion" /\ Over(c) /\ Success(c) /\ Wrote(c, e)
    /\ GotChain(d) /\ Service(d, Chosen(d)) = e
    /\ queries[d][Chosen(d)].value.body = ServedChain(e)
    /\ anchors[e][Len(anchors[e])] = body[c].hash

\* C14: after addVersion(previous, new) succeeded because service E accepted
\* it, a versions call answered by E, with no other write accepted by E in
\* between, returns a chain whose last element is new; when previous is null
\* the chain is exactly [new].
C14_WriteThenRead ==
    \A c, d \in Clients : \A e \in Endpoints : ReadAfterWrite(c, d, e) =>
        /\ Chain(d) # <<>>
        /\ Chain(d)[Len(Chain(d))] = newHashLinkSSI[c]
        /\ lastHashLinkSSI[c] = NoHashLink => Chain(d) = <<newHashLinkSSI[c]>>

\* C14's case: addVersion(null, h1) succeeded on a service that held nothing
\* and the versions call that followed, answered by that service, returned
\* [h1].
C14_Witness ==
    \E c, d \in Clients : \E e \in Endpoints :
        /\ ReadAfterWrite(c, d, e)
        /\ lastHashLinkSSI[c] = NoHashLink
        /\ newHashLinkSSI[c] = [type |-> "hl", hash |-> "h1"]
        /\ Chain(d) = <<[type |-> "hl", hash |-> "h1"]>>

\* The case of a later version: addVersion(h1, h2) succeeded on a service
\* that held [h1] and the versions call that followed returned [h1, h2].
C14_LaterVersion ==
    \E c, d \in Clients : \E e \in Endpoints :
        /\ ReadAfterWrite(c, d, e)
        /\ lastHashLinkSSI[c] = [type |-> "hl", hash |-> "h1"]
        /\ Chain(d) = <<[type |-> "hl", hash |-> "h1"], [type |-> "hl", hash |-> "h2"]>>

\* ------------------------------------------------------------------ C17
\* Two versions calls handed a chain to their callbacks. Every call of such
\* a behaviour is a read, so no chain changed since the initial state.
TwoReads(c, d) == c # d /\ GotChain(c) /\ GotChain(d)

\* C17 as stated: two versions calls for the same anchor, made while the
\* chain of no service changes, return the identical sequence.
C17_ReadsIdentical ==
    \A c, d \in Clients : TwoReads(c, d) => Chain(c) = Chain(d)

\* C17: two versions calls for the same anchor, made while the chain of no
\* service changes, return the identical sequence when the response handed
\* to the callback (the lowest-indexed fulfilled one) comes from the same
\* service in both calls.
C17_SameServiceSameChain ==
    \A c, d \in Clients :
        TwoReads(c, d) /\ Service(c, Chosen(c)) = Service(d, Chosen(d)) =>
            /\ Chain(c) = Chain(d)
            /\ Chain(c) = Decoded(c, Chosen(c))

\* C17's case: the services hold different chains, one of them stopped
\* answering between the two reads, and both reads returned the chain [h1]
\* of the same service.
C17_Witness ==
    \E c, d \in Clients :
        /\ TwoReads(c, d) /\ Service(c, Chosen(c)) = Service(d, Chosen(d))
        /\ Chain(c) = <<[type |-> "hl", hash |-> "h1"]>>
        /\ \E e \in Endpoints : anchors[e] = <<>>
        /\ \E i \in Idx(c) : IsFulfilled(c, i) /\ IsRejected(d, i)

\* ------------------------------------------------------------------ C19
\* The events of the trace that are ev.
Events(ev) == {k \in 1..Len(trace) : trace[k].ev = ev}

\* The seed file held a key and the key parsed to the domain d.
Parsed(d) == \E k \in Events("parsed") : trace[k].arg = d

\* The build never touched the DSU of the seed file, it made a new dossier
\* under the configured domain, and that dossier is the one it works on.
Recreates ==
    /\ Events("loadDSU") = {}
    /\ \A k \in Events("createDSU") : trace[k].arg = configOrDSU.domain
    /\ \E k \in Events("createDossier") : trace[k].arg = configOrDSU.domain
    /\ bar # NoBar =>
          /\ bar.origin = "created"
          /\ bar.keySSI = KeySSI(configOrDSU.domain, "new")
    /\ Events("execute") # {} => bar # NoBar

\* C19 as stated: when the seed file parses to a key whose domain differs
\* from the configured domain, the stored DSU is never loaded or updated; a
\* new dossier is created under the configured domain and the commands are
\* applied to it.
C19_MismatchRecreates ==
    \A d \in Domains \cup {""} :
        Parsed(d) /\ d # configOrDSU.domain => Recreates

\* C19: when the seed file parses to a key that carries a domain and that
\* domain differs from the configured one, the stored DSU is never loaded
\* or updated; createDossier is called for the configured domain and the
\* commands are applied to the dossier it creates. (A key that carries no
\* domain is loaded whatever the configured domain.)
C19_DomainChangeRecreates ==
    /\ \A d \in Domains :
          Parsed(d) /\ d # configOrDSU.domain => Recreates
    /\ Parsed("") /\ Events("createDossier") = {} /\ bar # NoBar =>
          bar.keySSI = seedFile.keySSI /\ bar.origin \in {"loaded", "recreated"}

\* C19's case: the seed file held a key of another domain; the build is
\* over, its commands were executed on a new dossier of the configured
\* domain and the callback got the key of that dossier.
C19_Witness ==
    /\ \E d \in Domains : Parsed(d) /\ d # configOrDSU.domain
    /\ dpc = "done"
    /\ Events("executed") # {}
    /\ Len(buildCallbacks) = 1 /\ buildCallbacks[1].err = NoError
    /\ buildCallbacks[1].keySSI = KeySSI(configOrDSU.domain, "new")

\* ------------------------------------------------------------------ C20
\* A command was taken off the list: handed to execute, or not recognized.
IsAttempt(e) == e.ev \in {"execute", "notRecognized"}
Attempts == SelectSeq(trace, IsAttempt)

\* The commands were taken in list order, each once: what was attempted
\* and what is left make up the list that was given.
InListOrder ==
    /\ Len(Attempts) + Len(commands) = Len(given)
    /\ \A k \in 1..Len(Attempts) : Attempts[k].arg = given[k]
    /\ \A k \in 1..Len(commands) : commands[k] = given[Len(Attempts) + k]

\* A command is attempted only after the one before it called back without
\* an error, and while a command is executed nothing else is.
OneAtATime ==
    /\ \A k \in 1..Len(trace) : IsAttempt(trace[k]) =>
          \/ \A j \in 1..(k - 1) : ~IsAttempt(trace[j])
          \/ trace[k - 1].ev = "executed"
    /\ \A k \in Events("execute") :
          IF k = Len(trace)
          THEN dpc = "run"
          ELSE trace[k + 1].ev \in {"executed", "failed"} /\ trace[k + 1].arg = trace[k].arg

\* commitBatch is called at most once, after every command was executed
\* without error, and once exactly in a build that called back a key.
CommitsOnce ==
    /\ Cardinality(Events("commitBatch")) <= 1
    /\ \A k \in Events("commitBatch") :
          /\ commands = <<>>
          /\ Cardinality(Events("executed")) = Len(given)
          /\ \A j \in (k + 1)..Len(trace) : ~IsAttempt(trace[j])
    /\ dpc = "done" /\ buildCallbacks[1].err = NoError =>
          Cardinality(Events("commitBatch")) = 1

\* The error of the event that stops updateDossier.
Stops(e) ==
    CASE e.ev = "failed" -> CommandError
      [] e.ev = "notRecognized" -> NotRecognized(e.arg)
      [] e = Ev("beginBatch", "throws") -> BatchError
      [] OTHER -> NoError

\* An unrecognized or failed command, or beginBatch throwing, ends the
\* build: the callback gets that error, nothing runs after it, commitBatch
\* is not called and the key is not saved.
StopsOnError ==
    \A k \in 1..Len(trace) : Stops(trace[k]) # NoError =>
        /\ k = Len(trace)
        /\ dpc = "done"
        /\ buildCallbacks = <<[err |-> Stops(trace[k]), keySSI |-> NoKey]>>
        /\ Events("commitBatch") = {}
        /\ Events("writeFile") = {} /\ Events("written") = {}

\* C20: updateDossier runs the commands one after the other in list order,
\* each at most once and the next only after the previous one called back
\* without error; commitBatch is called exactly once and only after every
\* command succeeded; if a command is not recognized or fails, or beginBatch
\* throws, the callback receives that error, no later command is run,
\* commitBatch is not called and the key is not saved.
C20_SequentialCommands ==
    InListOrder /\ OneAtATime /\ CommitsOnce /\ StopsOnError

\* C20's case: of two commands the first was executed and the second
\* failed or was not recognized; the build ended there with the error.
C20_Witness ==
    /\ Len(given) = 2 /\ dpc = "done"
    /\ Len(Attempts) = 2
    /\ Events("executed") # {}
    /\ Stops(trace[Len(trace)]) # NoError
    /\ Len(buildCallbacks) = 1 /\ buildCallbacks[1].err # NoError

\* The case of a build whose two commands succeeded: one commitBatch, and
\* the key written to the seed file.
C20_AllSucceeded ==
    /\ Len(given) = 2 /\ dpc = "done"
    /\ Cardinality(Events("executed")) = 2
    /\ Cardinality(Events("commitBatch")) = 1
    /\ Events("written") # {}
    /\ Len(buildCallbacks) = 1 /\ buildCallbacks[1].err = NoError

\* ------------------------------------------------------------------ C21
\* The lowest index of a request of c that settled with st.
Lowest(c, st) ==
    CHOOSE i \in Idx(c) :
        /\ queries[c][i].status = st
        /\ \A j \in 1..(i - 1) : queries[c][j].status # st

\* What the callback of c is called with, as a function of the outcomes of
\* the requests in list order: the lowest-indexed fulfilled response (its
\* confirmation, or its chain when it decodes; nothing when it does not),
\* else the reason of the lowest-indexed rejection for addVersion and the
\* TypeError of the missing response for versions.
Outcome(c) ==
    IF \E i \in Idx(c) : IsFulfilled(c, i)
    THEN IF op[c] = "addVersion"
         THEN <<[err |-> NoError, result |-> queries[c][Lowest(c, "fulfilled")].value]>>
         ELSE IF queries[c][Lowest(c, "fulfilled")].value.json
         THEN <<[err |-> NoError, result |-> Decoded(c, Lowest(c, "fulfilled"))]>>
         ELSE <<>>
    ELSE IF op[c] = "addVersion"
         THEN <<[err |-> queries[c][Lowest(c, "rejected")].reason, result |-> Undefined]>>
         ELSE <<[err |-> TypeErr, result |-> Undefined]>>

\* C21: the outcome of a versions or addVersion call is a function of the
\* outcomes of its requests and of the order of the list the BDNS returned
\* only: the lowest-indexed fulfilled request is chosen, else the
\* lowest-indexed rejected one; it is the same whatever the order in which
\* the responses arrived.
C21_OutcomeByListOrder ==
    \A c \in Clients : Over(c) /\ N(c) >= 1 => callbacks[c] = Outcome(c)

\* C21's case: a versions call and an addVersion call, each over two
\* services or more, are over; in one of them a fulfilled response arrived
\* before the one of lower index that was handed to the callback, in the
\* other every request was rejected, for different reasons, and the reason
\* of the first of the list was surfaced.
C21_Witness ==
    \E c, d \in Clients :
        /\ c # d /\ Over(c) /\ Over(d) /\ op[c] # "none" /\ op[d] = "addVersion"
        /\ N(c) >= 2 /\ N(d) >= 2
        /\ firstSettled[c] # 0
        /\ firstSettled[c] > Lowest(c, "fulfilled")
        /\ Len(callbacks[c]) = 1
        /\ \A i \in Idx(d) : IsRejected(d, i)
        /\ \E i \in Idx(d) : queries[d][i].reason # queries[d][1].reason
        /\ callbacks[d] = <<[err |-> queries[d][1].reason, result |-> Undefined]>>

\* ------------------------------------------------------------------ C22
\* commitBatch was called and has not called back: a batch is in progress
\* on the DSU it was called on.
CommitInBatch == dpc = "commit" => bar.batch

\* The builder opens at most one batch before a commit.
OneBeginBatch ==
    \A j, k \in Events("beginBatch") :
        j < k => \E m \in Events("committed") : j < m /\ m < k

\* A step that finds a batch in progress on the DSU it goes on with does
\* not call beginBatch.
NoNestedBeginBatch ==
    bar.batch /\ bar'.keySSI = bar.keySSI /\ bar'.origin = bar.origin /\ trace' # <<>>
        => Events("beginBatch")' = Events("beginBatch")

\* The part of C22 on beginBatch, on every step.
C22_NoNestedBeginBatch == [][NoNestedBeginBatch]_vars

\* C22: in every run of buildDossier, commitBatch is called on the DSU only
\* while a batch is in progress on it (opened by the builder or open on
\* entry), also when the list of commands is empty, and beginBatch is
\* never called while a batch is in progress.
C22_BatchDiscipline == CommitInBatch /\ OneBeginBatch

\* ------------------------------------------------------------------ C23
\* The build is over and the callback got a key.
Built == dpc = "done" /\ Len(buildCallbacks) = 1 /\ buildCallbacks[1].err = NoError

\* C23: on a builder with no sourceDSU, over any sequence of buildDossier
\* calls, also with the same config object passed again: a call that made a
\* new dossier through createDossier and succeeded has written the key of
\* that dossier to the seed file before the callback; a call that loaded or
\* re-created the DSU of the seed file, or was given a DSU, never writes
\* the seed file.
C23_SeedPersistence ==
    ~sourceDSU =>
        /\ Built /\ bar.origin = "created" =>
              /\ Events("written") # {}
              /\ seedFile = SeedFile("key", bar.keySSI)
              /\ buildCallbacks[1].keySSI = bar.keySSI
        /\ bar.origin \in {"loaded", "recreated", "given"} =>
              Events("writeFile") = {} /\ Events("written") = {}

\* The part of C23 that holds: a build that loaded or re-created the DSU of
\* the seed file, or was given a DSU, leaves the seed file as it was.
C23_NoWriteOnLoad ==
    [][bar'.origin \in {"loaded", "recreated", "given"} => seedFile' = seedFile]_vars

====
